---------------------------- MODULE Spec2Model ----------------------------
(***************************************************************************)
(* Model of data_processing/process_books.py: the ingestion script that    *)
(* separates textbook content from solutions, chunks both streams and adds *)
(* them to the "jee_books" collection.                                     *)
(*                                                                         *)
(* Text is a sequence of tokens: "\n" and " " are the whitespace           *)
(* characters, every other token is a word (an unbroken run of non-space   *)
(* characters, WordLen characters long).  File names are sequences of      *)
(* name parts, ".pdf" and "_Solutions" being parts of their own.           *)
(***************************************************************************)
EXTENDS Integers, Sequences, FiniteSets, TLC

(***************************************************************************)
(* Bounds of the model.                                                    *)
(***************************************************************************)
MaxFiles == 2      \* entries of one directory listing
MaxPages == 3      \* pages of all the documents of the directory together
MaxRuns == 2       \* runs of the script against the same persisted store
MaxFaults == 1     \* failures of the external capabilities in one behaviour
WordLen == 450     \* characters one word token stands for

(***************************************************************************)
(* Program constants.                                                      *)
(***************************************************************************)
chunk_size == 1000
chunk_overlap == 100

NL == "\n"
SP == " "

Range(s) == {s[k] : k \in DOMAIN s}

RECURSIVE Flatten(_)
Flatten(ss) == IF ss = <<>> THEN <<>> ELSE Head(ss) \o Flatten(Tail(ss))

(***************************************************************************)
(* The solutions-header pattern, re.IGNORECASE | re.MULTILINE:             *)
(*   ^\s*(solutions|answer key|hints and solutions|answers)\s*$            *)
(***************************************************************************)
solution_keywords == {"solutions", "answer key", "hints and solutions", "answers"}

\* re.IGNORECASE on the words the model's pages use.
Lower(tok) ==
    CASE tok = "Solutions" -> "solutions"
      [] tok = "ANSWERS" -> "answers"
      [] tok = "Answer Key" -> "answer key"
      [] OTHER -> tok

IsSpace(tok) == tok \in {NL, SP}

IsKeyword(tok) == Lower(tok) \in solution_keywords

\* ^\s* : only whitespace between a line start and position p.
LineStartsBefore(text, p) ==
    \E q \in 1..p :
        /\ (q = 1 \/ text[q - 1] = NL)
        /\ \A r \in q..(p - 1) : IsSpace(text[r])

\* \s*$ : only whitespace between position p and a line end.
LineEndsAfter(text, p) ==
    \E q \in p..Len(text) :
        /\ (q = Len(text) \/ text[q + 1] = NL)
        /\ \A r \in (p + 1)..q : IsSpace(text[r])

\* A search that leaves out the anchors ^ and $: the keyword anywhere in the page.
SearchKeywordsAnywhere(text) == \E p \in 1..Len(text) : IsKeyword(text[p])

\* solution_keywords.search(text)
SearchKeywords(text) ==
    \E p \in 1..Len(text) :
        /\ IsKeyword(text[p])
        /\ LineStartsBefore(text, p)
        /\ LineEndsAfter(text, p)

(***************************************************************************)
(* RecursiveCharacterTextSplitter(chunk_size, chunk_overlap).split_text    *)
(* with the library's defaults: separators "\n\n", "\n", " ", "", the      *)
(* separator kept at the head of the piece that follows it, len as the     *)
(* length function, every merged chunk stripped and dropped when empty.    *)
(***************************************************************************)
CharLen(tok) == IF IsSpace(tok) THEN 1 ELSE WordLen

RECURSIVE TextLen(_)
TextLen(text) == IF text = <<>> THEN 0 ELSE CharLen(Head(text)) + TextLen(Tail(text))

Separators == << <<NL, NL>>, <<NL>>, <<SP>>, <<>> >>

IsPrefix(p, s) == Len(p) <= Len(s) /\ SubSeq(s, 1, Len(p)) = p

Occurs(sep, text) ==
    \E k \in 1..(Len(text) - Len(sep) + 1) : SubSeq(text, k, k + Len(sep) - 1) = sep

\* re.split(sep, text): the pieces between the occurrences of sep, left to right.
RECURSIVE ReSplit(_, _, _)
ReSplit(text, sep, cur) ==
    IF text = <<>> THEN <<cur>>
    ELSE IF IsPrefix(sep, text)
         THEN <<cur>> \o ReSplit(SubSeq(text, Len(sep) + 1, Len(text)), sep, <<>>)
         ELSE ReSplit(Tail(text), sep, Append(cur, Head(text)))

\* _split_text_with_regex, keep_separator: the separator opens the next piece;
\* the empty separator splits into single characters (here: single tokens).
SplitKeep(text, sep) ==
    IF sep = <<>> THEN [k \in 1..Len(text) |-> <<text[k]>>]
    ELSE LET parts == ReSplit(text, sep, <<>>)
             glued == [k \in 1..Len(parts) |->
                          IF k = 1 THEN parts[1] ELSE sep \o parts[k]]
         IN  SelectSeq(glued, LAMBDA s : s # <<>>)

RECURSIVE LStrip(_)
LStrip(text) ==
    IF text # <<>> /\ IsSpace(Head(text)) THEN LStrip(Tail(text)) ELSE text

RECURSIVE RStrip(_)
RStrip(text) ==
    IF text # <<>> /\ IsSpace(text[Len(text)])
    THEN RStrip(SubSeq(text, 1, Len(text) - 1)) ELSE text

Strip(text) == RStrip(LStrip(text))

\* _join_docs with the empty joiner: None (here <<>>) when nothing is left.
JoinDocs(docs) == Strip(Flatten(docs))

EmitDoc(docs, cur) ==
    IF JoinDocs(cur) = <<>> THEN docs ELSE Append(docs, JoinDocs(cur))

\* The while loop of _merge_splits that drops pieces from the front of the
\* current chunk until what is left fits the overlap and the next piece.
RECURSIVE DropFront(_, _, _)
DropFront(cur, total, len) ==
    IF total > chunk_overlap \/ (total + len > chunk_size /\ total > 0)
    THEN DropFront(Tail(cur), total - TextLen(Head(cur)), len)
    ELSE <<cur, total>>

\* _merge_splits(splits, ""): greedy merge of the pieces into chunks.
RECURSIVE MergeSplits(_, _, _, _)
MergeSplits(splits, docs, cur, total) ==
    IF splits = <<>> THEN EmitDoc(docs, cur)
    ELSE LET d == Head(splits)
             len == TextLen(d)
         IN  IF total + len > chunk_size /\ cur # <<>>
             THEN LET kept == DropFront(cur, total, len)
                  IN  MergeSplits(Tail(splits), EmitDoc(docs, cur),
                                  Append(kept[1], d), kept[2] + len)
             ELSE MergeSplits(Tail(splits), docs, Append(cur, d), total + len)

\* The separator _split_text picks: the first one that occurs in the text.
RECURSIVE PickSeparator(_, _)
PickSeparator(text, k) ==
    IF k = Len(Separators) \/ Occurs(Separators[k], text) THEN k
    ELSE PickSeparator(text, k + 1)

RECURSIVE SplitFrom(_, _)
RECURSIVE SplitPieces(_, _, _, _)
\* _split_text(text, separators[k..])
SplitFrom(text, k) ==
    LET s == PickSeparator(text, k)
    IN  SplitPieces(SplitKeep(text, Separators[s]), s, <<>>, <<>>)

\* The loop of _split_text over the pieces: short ones are collected and
\* merged, a long one is split again with the separators that remain.
SplitPieces(splits, s, good, final) ==
    IF splits = <<>>
    THEN IF good = <<>> THEN final ELSE final \o MergeSplits(good, <<>>, <<>>, 0)
    ELSE LET p == Head(splits)
             flushed == IF good = <<>> THEN final
                        ELSE final \o MergeSplits(good, <<>>, <<>>, 0)
         IN  IF TextLen(p) < chunk_size
             THEN SplitPieces(Tail(splits), s, Append(good, p), final)
             ELSE IF s = Len(Separators)
                  THEN SplitPieces(Tail(splits), s, <<>>, Append(flushed, p))
                  ELSE SplitPieces(Tail(splits), s, <<>>,
                                   flushed \o SplitFrom(p, s + 1))

\* text_splitter.split_text(text)
split_text(text) == SplitFrom(text, 1)

(***************************************************************************)
(* The source directory and the documents in it.                           *)
(***************************************************************************)
A_pdf == <<"A", ".pdf">>
B_pdf == <<"B", ".pdf">>
A_Solutions_pdf == <<"A", "_Solutions", ".pdf">>
A_pdf_pdf == <<"A", ".pdf", ".pdf">>
A_Solutions_v2_pdf == <<"A", "_Solutions", "_v2", ".pdf">>
A_txt == <<"A", ".txt">>

Names == {A_pdf, B_pdf, A_Solutions_pdf, A_pdf_pdf, A_Solutions_v2_pdf, A_txt}

SeqsUpTo(S, n) == UNION {[1..k -> S] : k \in 0..n}

\* What os.listdir may return; a duplicate entry is allowed.
Listings == SeqsUpTo(Names, MaxFiles)

\* The text of one page: plain text, a page with a header line, a page that
\* only mentions the keyword inside a line.
PageTexts == { <<"ch">>, <<"Solutions", NL, "x=5">>, <<"see", SP, "Solutions">> }

Docs == SeqsUpTo(PageTexts, MaxPages)

VARIABLES
    listing,             \* os.listdir(PDF_DIRECTORY)
    fs,                  \* the pages of every document opened so far
    run,                 \* which run of the script this is
    faults,              \* capability failures so far
    pc,                  \* where the script is
    i,                   \* position of the for loop in the listing
    processed_books,
    store,               \* the records of the persisted collection
    base_name,
    book_content,
    book_solutions,
    external_solutions,
    frame,               \* the locals of extract_content_and_solutions
    handles,             \* documents opened and not closed
    trace,               \* this run's capability calls and printed lines
    prev                 \* what the previous run left behind

vars == <<listing, fs, run, faults, pc, i, processed_books, store, base_name,
          book_content, book_solutions, external_solutions, frame, handles,
          trace, prev>>

(***************************************************************************)
(* Helpers of the main loop.                                               *)
(***************************************************************************)
\* A test that leaves out the "_Solutions" part.
IsPdf(filename) == filename # <<>> /\ filename[Len(filename)] = ".pdf"

\* filename.endswith(".pdf") and "_Solutions" not in filename
IsMainBook(filename) ==
    /\ filename # <<>>
    /\ filename[Len(filename)] = ".pdf"
    /\ "_Solutions" \notin Range(filename)

\* filename.replace(".pdf", "")
BaseName(filename) == SelectSeq(filename, LAMBDA part : part # ".pdf")

\* f"{base_name}_Solutions.pdf"
SolutionFilename(base) == base \o <<"_Solutions", ".pdf">>

\* os.path.exists(solution_path): the directory holds the listed files.
PathExists(filename) == filename \in Range(listing)

\* str(i)
Digit(d) == <<"0", "1", "2", "3", "4", "5", "6", "7", "8", "9">>[d + 1]

RECURSIVE Str(_)
Str(n) == IF n < 10 THEN <<Digit(n)>> ELSE Append(Str(n \div 10), Digit(n % 10))

\* f"{base_name}_{content_type}_{i}"
FragmentId(base, content_type, k) == base \o <<"_", content_type, "_">> \o Str(k)

\* Ids counted from one.
MakeIdsFromOne(base, content_type, chunks) ==
    [k \in 1..Len(chunks) |-> FragmentId(base, content_type, k)]

\* ids of add_to_db: one per chunk, i in range(len(chunks))
MakeIds(base, content_type, chunks) ==
    [k \in 1..Len(chunks) |-> FragmentId(base, content_type, k - 1)]

\* metadatas of add_to_db
MakeMetadatas(base, content_type, chunks) ==
    [k \in 1..Len(chunks) |-> [source_book |-> base, content_type |-> content_type]]

\* embedding_model.encode(chunks).tolist(): one vector per chunk, in order.
Encode(chunks) == [k \in 1..Len(chunks) |-> TextLen(chunks[k])]

StoreIds(st) == {r.id : r \in st}

\* collection.upsert: a record whose id the collection already holds is replaced.
CollectionUpsert(st, embeddings, documents, metadatas, ids, r) ==
    {q \in st : q.id \notin Range(ids)}
        \cup { [id |-> ids[k], document |-> documents[k],
                metadata |-> metadatas[k], embedding |-> embeddings[k],
                added_in_run |-> r] : k \in 1..Len(ids) }

\* collection.add: a record whose id the collection already holds is left as
\* it is, the others are inserted.
CollectionAdd(st, embeddings, documents, metadatas, ids, r) ==
    st \cup { [id |-> ids[k], document |-> documents[k],
               metadata |-> metadatas[k], embedding |-> embeddings[k],
               added_in_run |-> r] :
              k \in {j \in 1..Len(ids) : ids[j] \notin StoreIds(st)} }

\* The separate file's text put before the book's own solutions.
AllSolutionsTextCompanionFirst(solutions, external) ==
    external \o <<NL>> \o solutions

\* all_solutions_text = book_solutions + "\n" + external_solutions
AllSolutionsText(solutions, external) == solutions \o <<NL>> \o external

(***************************************************************************)
(* One pass of the page loop of extract_content_and_solutions.             *)
(***************************************************************************)
NoFrame == [path |-> <<>>, role |-> "none", page |-> 0, book_content |-> <<>>,
            solutions_content |-> <<>>, is_solution_section |-> FALSE]

\* A flag that follows the current page instead of staying set.
ClassifyPageFlagNotSticky(f, text) ==
    LET in_solutions == SearchKeywords(text)
    IN  [f EXCEPT !.page = f.page + 1,
                  !.is_solution_section = in_solutions,
                  !.solutions_content =
                      IF in_solutions THEN @ \o text \o <<NL>> ELSE @,
                  !.book_content =
                      IF in_solutions THEN @ ELSE @ \o text \o <<NL>>]

ClassifyPage(f, text) ==
    LET in_solutions == f.is_solution_section \/ SearchKeywords(text)
    IN  [f EXCEPT !.page = f.page + 1,
                  !.is_solution_section = in_solutions,
                  !.solutions_content =
                      IF in_solutions THEN @ \o text \o <<NL>> ELSE @,
                  !.book_content =
                      IF in_solutions THEN @ ELSE @ \o text \o <<NL>>]

(***************************************************************************)
(* The trace: every call of an external capability and every printed line. *)
(***************************************************************************)
Ev(ev, file, content_type, n, ok, ids, documents) ==
    [ev |-> ev, file |-> file, content_type |-> content_type, n |-> n,
     ok |-> ok, ids |-> ids, documents |-> documents,
     embeddings |-> <<>>, metadatas |-> <<>>]

\* A call with the vectors and metadatas it returned or was given.
Call(e, embeddings, metadatas) ==
    [e EXCEPT !.embeddings = embeddings, !.metadatas = metadatas]

Log(events) == trace' = trace \o events

NoPrev == [ran |-> FALSE, clean |-> FALSE,
           adds |-> <<>>, store |-> {}]

Clean(tr) == \A k \in DOMAIN tr : tr[k].ok

RECURSIVE PagesOf(_, _)
PagesOf(f, S) ==
    IF S = {} THEN 0
    ELSE LET n == CHOOSE m \in S : TRUE
         IN  Len(f[n]) + PagesOf(f, S \ {n})

TotalPages(f) == PagesOf(f, DOMAIN f)

Init ==
    /\ listing \in Listings
    /\ fs = [n \in {} |-> <<>>]
    /\ run = 1
    /\ faults = 0
    /\ pc = "loop"
    /\ i = 1
    /\ processed_books = {}
    /\ store = {}
    /\ base_name = <<>>
    /\ book_content = <<>>
    /\ book_solutions = <<>>
    /\ external_solutions = <<>>
    /\ frame = NoFrame
    /\ handles = {}
    /\ trace = <<>>
    /\ prev = NoPrev

(***************************************************************************)
(* The for loop over os.listdir(PDF_DIRECTORY).                            *)
(***************************************************************************)
AtFile == pc = "loop" /\ i <= Len(listing)

\* The entry is not a main textbook file: nothing is done with it.
SkipFile ==
    /\ AtFile
    /\ ~IsMainBook(listing[i])
    /\ i' = i + 1
    /\ UNCHANGED <<listing, fs, run, faults, pc, processed_books, store,
                   base_name, book_content, book_solutions,
                   external_solutions, frame, handles, trace, prev>>

\* if base_name in processed_books: continue
SkipProcessed ==
    /\ AtFile
    /\ IsMainBook(listing[i])
    /\ BaseName(listing[i]) \in processed_books
    /\ i' = i + 1
    /\ base_name' = BaseName(listing[i])
    /\ UNCHANGED <<listing, fs, run, faults, pc, processed_books, store,
                   book_content, book_solutions, external_solutions, frame,
                   handles, trace, prev>>

\* print("Processing Book: ..."), then the call of
\* extract_content_and_solutions(book_path).
BeginBook ==
    /\ AtFile
    /\ IsMainBook(listing[i])
    /\ BaseName(listing[i]) \notin processed_books
    /\ base_name' = BaseName(listing[i])
    /\ frame' = [NoFrame EXCEPT !.path = listing[i], !.role = "primary"]
    /\ pc' = "open"
    /\ Log(<<Ev("print_processing", BaseName(listing[i]), "", 0, TRUE, <<>>, <<>>)>>)
    /\ UNCHANGED <<listing, fs, run, faults, i, processed_books, store,
                   book_content, book_solutions, external_solutions, handles,
                   prev>>

(***************************************************************************)
(* extract_content_and_solutions(pdf_path).                                *)
(***************************************************************************)
\* The caller keeps both buffers of the separate solutions file.
ReturnWholeCompanion(content, solutions) ==
    IF frame.role = "primary"
    THEN /\ book_content' = content
         /\ book_solutions' = solutions
         /\ pc' = "check_solutions_file"
         /\ UNCHANGED external_solutions
    ELSE /\ external_solutions' = content \o solutions
         /\ pc' = "index_content"
         /\ UNCHANGED <<book_content, book_solutions>>

\* return book_content, solutions_content (or "", ""), received by the caller:
\* book_content, book_solutions = ... for the main book,
\* external_solutions, _ = ...       for the separate solutions file.
Return(content, solutions) ==
    IF frame.role = "primary"
    THEN /\ book_content' = content
         /\ book_solutions' = solutions
         /\ pc' = "check_solutions_file"
         /\ UNCHANGED external_solutions
    ELSE /\ external_solutions' = content
         /\ pc' = "index_content"
         /\ UNCHANGED <<book_content, book_solutions>>

\* fitz.open raises: the error is printed and "", "" returned.
OpenFails ==
    /\ pc = "open"
    /\ faults < MaxFaults
    /\ faults' = faults + 1
    /\ Log(<<Ev("open", frame.path, "", 0, FALSE, <<>>, <<>>),
             Ev("print_open_error", frame.path, "", 0, TRUE, <<>>, <<>>)>>)
    /\ Return(<<>>, <<>>)
    /\ frame' = NoFrame
    /\ UNCHANGED <<listing, fs, run, i, processed_books, store, base_name,
                   handles, prev>>

\* fitz.open succeeds; the document's pages are fixed from then on.
OpenDocument ==
    /\ pc = "open"
    /\ \E doc \in Docs :
        /\ IF frame.path \in DOMAIN fs
           THEN doc = fs[frame.path]
           ELSE TotalPages(fs) + Len(doc) <= MaxPages
        /\ fs' = IF frame.path \in DOMAIN fs THEN fs ELSE fs @@ (frame.path :> doc)
    /\ handles' = handles \cup {frame.path}
    /\ pc' = "pages"
    /\ Log(<<Ev("open", frame.path, "", 0, TRUE, <<>>, <<>>)>>)
    /\ UNCHANGED <<listing, run, faults, i, processed_books, store, base_name,
                   book_content, book_solutions, external_solutions, frame,
                   prev>>

MorePages == pc = "pages" /\ frame.page < Len(fs[frame.path])

\* One pass of "for page in doc": the page's text is classified and appended.
ReadPage ==
    /\ MorePages
    /\ frame' = ClassifyPage(frame, fs[frame.path][frame.page + 1])
    /\ Log(<<Ev("get_text", frame.path, "", frame.page, TRUE, <<>>, <<>>)>>)
    /\ UNCHANGED <<listing, fs, run, faults, pc, i, processed_books, store,
                   base_name, book_content, book_solutions,
                   external_solutions, handles, prev>>

\* page.get_text raises: nothing catches it, the script ends with a traceback.
ReadPageRaises ==
    /\ MorePages
    /\ faults < MaxFaults
    /\ faults' = faults + 1
    /\ pc' = "crashed"
    /\ Log(<<Ev("get_text", frame.path, "", frame.page, FALSE, <<>>, <<>>)>>)
    /\ UNCHANGED <<listing, fs, run, i, processed_books, store, base_name,
                   book_content, book_solutions, external_solutions, frame,
                   handles, prev>>

\* The loop is over: doc.close() and return book_content, solutions_content.
CloseAndReturn ==
    /\ pc = "pages"
    /\ frame.page = Len(fs[frame.path])
    /\ handles' = handles \ {frame.path}
    /\ Log(<<Ev("close", frame.path, "", 0, TRUE, <<>>, <<>>)>>)
    /\ Return(frame.book_content, frame.solutions_content)
    /\ frame' = NoFrame
    /\ UNCHANGED <<listing, fs, run, faults, i, processed_books, store,
                   base_name, prev>>

(***************************************************************************)
(* Step 2 of the loop body: the separate solutions book.                   *)
(***************************************************************************)
\* The flag is not local: the separate file starts with the flag the main book
\* ended with.
FoundSolutionsFileKeepsFlag ==
    /\ pc = "check_solutions_file"
    /\ PathExists(SolutionFilename(base_name))
    /\ external_solutions' = <<>>
    /\ frame' = [NoFrame EXCEPT !.path = SolutionFilename(base_name),
                                !.role = "companion",
                                !.is_solution_section = (book_solutions # <<>>)]
    /\ pc' = "open"
    /\ Log(<<Ev("print_found", SolutionFilename(base_name), "", 0, TRUE, <<>>, <<>>)>>)
    /\ UNCHANGED <<listing, fs, run, faults, i, processed_books, store,
                   base_name, book_content, book_solutions, handles, prev>>

FoundSolutionsFile ==
    /\ pc = "check_solutions_file"
    /\ PathExists(SolutionFilename(base_name))
    /\ external_solutions' = <<>>
    /\ frame' = [NoFrame EXCEPT !.path = SolutionFilename(base_name),
                                !.role = "companion"]
    /\ pc' = "open"
    /\ Log(<<Ev("print_found", SolutionFilename(base_name), "", 0, TRUE, <<>>, <<>>)>>)
    /\ UNCHANGED <<listing, fs, run, faults, i, processed_books, store,
                   base_name, book_content, book_solutions, handles, prev>>

NoSolutionsFile ==
    /\ pc = "check_solutions_file"
    /\ ~PathExists(SolutionFilename(base_name))
    /\ external_solutions' = <<>>
    /\ pc' = "index_content"
    /\ UNCHANGED <<listing, fs, run, faults, i, processed_books, store,
                   base_name, book_content, book_solutions, frame, handles,
                   trace, prev>>

(***************************************************************************)
(* Steps 3 to 5: chunking and add_to_db(chunks, content_type).             *)
(***************************************************************************)
content_chunks == split_text(book_content)
solution_chunks == split_text(AllSolutionsText(book_solutions, external_solutions))

Indexing == pc \in {"index_content", "index_solution"}
ContentType == IF pc = "index_content" THEN "book_content" ELSE "solution"
Chunks == IF pc = "index_content" THEN content_chunks ELSE solution_chunks
\* The loop body that marks the book after its first add_to_db call.
AfterAddToDbSkipsSolutions == "mark"

AfterAddToDb == IF pc = "index_content" THEN "index_solution" ELSE "mark"

\* if not chunks: print("No text found ..."); return
AddToDbNoText ==
    /\ Indexing
    /\ Chunks = <<>>
    /\ pc' = AfterAddToDb
    /\ Log(<<Ev("print_no_text", base_name, ContentType, 0, TRUE, <<>>, <<>>)>>)
    /\ UNCHANGED <<listing, fs, run, faults, i, processed_books, store,
                   base_name, book_content, book_solutions,
                   external_solutions, frame, handles, prev>>

\* add_to_db that embeds the chunks one call at a time.
AddToDbEncodesPerChunk ==
    /\ Indexing
    /\ Chunks # <<>>
    /\ LET ids == MakeIds(base_name, ContentType, Chunks)
           metadatas == MakeMetadatas(base_name, ContentType, Chunks)
       IN  /\ store' = CollectionAdd(store, Encode(Chunks), Chunks, metadatas,
                                     ids, run)
           /\ Log([k \in 1..Len(Chunks) |->
                       Call(Ev("encode", base_name, ContentType, 1, TRUE, <<>>,
                               <<Chunks[k]>>), Encode(<<Chunks[k]>>), <<>>)]
                   \o <<Call(Ev("add", base_name, ContentType, Len(ids), TRUE,
                                ids, Chunks), Encode(Chunks), metadatas),
                        Ev("print_success", base_name, ContentType, Len(Chunks),
                           TRUE, <<>>, <<>>)>>)
    /\ pc' = AfterAddToDb
    /\ UNCHANGED <<listing, fs, run, faults, i, processed_books, base_name,
                   book_content, book_solutions, external_solutions, frame,
                   handles, prev>>

\* add_to_db without the "if not chunks" return.
AddToDbWhateverChunks ==
    /\ Indexing
    /\ LET ids == MakeIds(base_name, ContentType, Chunks)
           metadatas == MakeMetadatas(base_name, ContentType, Chunks)
       IN  /\ store' = CollectionAdd(store, Encode(Chunks), Chunks, metadatas,
                                     ids, run)
           /\ Log(<<Call(Ev("encode", base_name, ContentType, Len(Chunks), TRUE,
                            <<>>, Chunks), Encode(Chunks), <<>>),
                    Call(Ev("add", base_name, ContentType, Len(ids), TRUE, ids,
                            Chunks), Encode(Chunks), metadatas),
                    Ev("print_success", base_name, ContentType, Len(Chunks),
                       TRUE, <<>>, <<>>)>>)
    /\ pc' = AfterAddToDb
    /\ UNCHANGED <<listing, fs, run, faults, i, processed_books, base_name,
                   book_content, book_solutions, external_solutions, frame,
                   handles, prev>>

\* encode and collection.add both return.
AddToDb ==
    /\ Indexing
    /\ Chunks # <<>>
    /\ LET ids == MakeIds(base_name, ContentType, Chunks)
           metadatas == MakeMetadatas(base_name, ContentType, Chunks)
       IN  /\ store' = CollectionAdd(store, Encode(Chunks), Chunks, metadatas,
                                     ids, run)
           /\ Log(<<Call(Ev("encode", base_name, ContentType, Len(Chunks), TRUE,
                            <<>>, Chunks), Encode(Chunks), <<>>),
                    Call(Ev("add", base_name, ContentType, Len(ids), TRUE, ids,
                            Chunks), Encode(Chunks), metadatas),
                    Ev("print_success", base_name, ContentType, Len(Chunks),
                       TRUE, <<>>, <<>>)>>)
    /\ pc' = AfterAddToDb
    /\ UNCHANGED <<listing, fs, run, faults, i, processed_books, base_name,
                   book_content, book_solutions, external_solutions, frame,
                   handles, prev>>

\* embedding_model.encode raises: collection.add is not reached.
AddToDbEncodeFails ==
    /\ Indexing
    /\ Chunks # <<>>
    /\ faults < MaxFaults
    /\ faults' = faults + 1
    /\ pc' = AfterAddToDb
    /\ Log(<<Ev("encode", base_name, ContentType, Len(Chunks), FALSE, <<>>, Chunks),
             Ev("print_error", base_name, ContentType, 0, TRUE, <<>>, <<>>)>>)
    /\ UNCHANGED <<listing, fs, run, i, processed_books, store, base_name,
                   book_content, book_solutions, external_solutions, frame,
                   handles, prev>>

\* collection.add raises after it has stored the batch.
AddToDbAddFailsAfterWrite ==
    /\ Indexing
    /\ Chunks # <<>>
    /\ faults < MaxFaults
    /\ faults' = faults + 1
    /\ pc' = AfterAddToDb
    /\ LET ids == MakeIds(base_name, ContentType, Chunks)
           metadatas == MakeMetadatas(base_name, ContentType, Chunks)
       IN  /\ store' = CollectionAdd(store, Encode(Chunks), Chunks, metadatas,
                                     ids, run)
           /\ Log(<<Call(Ev("encode", base_name, ContentType, Len(Chunks), TRUE,
                            <<>>, Chunks), Encode(Chunks), <<>>),
                    Call(Ev("add", base_name, ContentType, Len(ids), FALSE, ids,
                            Chunks), Encode(Chunks), metadatas),
                    Ev("print_error", base_name, ContentType, 0, TRUE, <<>>, <<>>)>>)
    /\ UNCHANGED <<listing, fs, run, i, processed_books, base_name,
                   book_content, book_solutions, external_solutions, frame,
                   handles, prev>>

\* collection.add raises: the batch is not stored.
AddToDbAddFails ==
    /\ Indexing
    /\ Chunks # <<>>
    /\ faults < MaxFaults
    /\ faults' = faults + 1
    /\ pc' = AfterAddToDb
    /\ LET ids == MakeIds(base_name, ContentType, Chunks)
           metadatas == MakeMetadatas(base_name, ContentType, Chunks)
       IN  Log(<<Call(Ev("encode", base_name, ContentType, Len(Chunks), TRUE,
                         <<>>, Chunks), Encode(Chunks), <<>>),
                 Call(Ev("add", base_name, ContentType, Len(ids), FALSE, ids,
                         Chunks), Encode(Chunks), metadatas),
                 Ev("print_error", base_name, ContentType, 0, TRUE, <<>>, <<>>)>>)
    /\ UNCHANGED <<listing, fs, run, i, processed_books, store, base_name,
                   book_content, book_solutions, external_solutions, frame,
                   handles, prev>>

\* The loop body without processed_books.add(base_name).
MarkProcessedForgets ==
    /\ pc = "mark"
    /\ i' = i + 1
    /\ pc' = "loop"
    /\ UNCHANGED <<listing, fs, run, faults, processed_books, store, base_name,
                   book_content, book_solutions, external_solutions, frame,
                   handles, trace, prev>>

\* processed_books.add(base_name), and on to the next entry.
MarkProcessed ==
    /\ pc = "mark"
    /\ processed_books' = processed_books \cup {base_name}
    /\ i' = i + 1
    /\ pc' = "loop"
    /\ UNCHANGED <<listing, fs, run, faults, store, base_name, book_content,
                   book_solutions, external_solutions, frame, handles, trace,
                   prev>>

\* The listing is exhausted: the summary with collection.count().
Summary ==
    /\ pc = "loop"
    /\ i > Len(listing)
    /\ pc' = "done"
    /\ Log(<<Ev("print_summary", <<>>, "", Cardinality(store), TRUE, <<>>, <<>>)>>)
    /\ UNCHANGED <<listing, fs, run, faults, i, processed_books, store,
                   base_name, book_content, book_solutions,
                   external_solutions, frame, handles, prev>>

AddEvents(tr) == SelectSeq(tr, LAMBDA e : e.ev = "add")

\* The script, having completed, is started again on the same directory: the
\* process state is new, the collection is the persisted one.
NextRun ==
    /\ pc = "done"
    /\ run < MaxRuns
    /\ run' = run + 1
    /\ prev' = [ran |-> TRUE, clean |-> Clean(trace),
                adds |-> AddEvents(trace), store |-> store]
    /\ pc' = "loop"
    /\ i' = 1
    /\ processed_books' = {}
    /\ base_name' = <<>>
    /\ book_content' = <<>>
    /\ book_solutions' = <<>>
    /\ external_solutions' = <<>>
    /\ frame' = NoFrame
    /\ handles' = {}
    /\ trace' = <<>>
    /\ UNCHANGED <<listing, fs, faults, store>>

Next ==
    \/ SkipFile
    \/ SkipProcessed
    \/ BeginBook
    \/ OpenFails
    \/ OpenDocument
    \/ ReadPage
    \/ ReadPageRaises
    \/ CloseAndReturn
    \/ FoundSolutionsFile
    \/ NoSolutionsFile
    \/ AddToDbNoText
    \/ AddToDb
    \/ AddToDbEncodeFails
    \/ AddToDbAddFails
    \/ MarkProcessed
    \/ Summary
    \/ NextRun

Spec == Init /\ [][Next]_vars
(***************************************************************************)
(* Vocabulary of the properties.                                           *)
(***************************************************************************)
\* pages a..b of a document, each followed by a newline, in order
RECURSIVE JoinPages(_, _, _)
JoinPages(doc, a, b) ==
    IF a > b THEN <<>> ELSE doc[a] \o <<NL>> \o JoinPages(doc, a + 1, b)

HeaderWords == {"solutions", "Solutions", "SOLUTIONS", "answer key", "Answer Key",
                "hints and solutions", "answers", "ANSWERS"}

\* The page has a line that, leading and trailing blanks aside, is a header word.
HasHeaderLine(text) ==
    \E line \in Range(ReSplit(text, <<NL>>, <<>>)) :
        \E w \in HeaderWords : Strip(line) = <<w>>

HeaderPages(doc, n) == {k \in 1..n : HasHeaderLine(doc[k])}

FirstHeader(doc, n) ==
    CHOOSE k \in HeaderPages(doc, n) : \A m \in HeaderPages(doc, n) : k <= m

Last(s) == s[Len(s)]

\* extract_content_and_solutions has just returned the main book's buffers.
PrimaryReturned ==
    /\ pc = "check_solutions_file"
    /\ trace # <<>>
    /\ Last(trace).ev = "close"

Positions(ev) == {k \in DOMAIN trace : trace[k].ev = ev}

\* C1: when page k is the first page with a solutions header, pages before k
\* (each followed by a newline, in order) are the content buffer and pages
\* k..end the solutions buffer; the flag, once set, stays set whatever the
\* later pages hold; a header on the first page leaves the content empty.
C1_SplitAtFirstHeader ==
    /\ pc \in {"pages", "crashed"} /\ HeaderPages(fs[frame.path], frame.page) # {}
        => LET doc == fs[frame.path]
               k == FirstHeader(doc, frame.page)
           IN  /\ frame.is_solution_section
               /\ frame.book_content = JoinPages(doc, 1, k - 1)
               /\ frame.solutions_content = JoinPages(doc, k, frame.page)
               /\ (k = 1 => frame.book_content = <<>>)
    /\ PrimaryReturned /\ HeaderPages(fs[Last(trace).file], Len(fs[Last(trace).file])) # {}
        => LET doc == fs[Last(trace).file]
               k == FirstHeader(doc, Len(doc))
           IN  /\ book_content = JoinPages(doc, 1, k - 1)
               /\ book_solutions = JoinPages(doc, k, Len(doc))

C1_Witness ==
    /\ PrimaryReturned
    /\ LET doc == fs[Last(trace).file]
       IN  /\ Len(doc) = 3
           /\ HeaderPages(doc, 3) = {2}
           /\ book_solutions = doc[2] \o <<NL>> \o doc[3] \o <<NL>>

\* C2: when no page has a solutions header, the solutions buffer is empty and
\* the content buffer is all the pages, each followed by a newline, in order.
C2_NoHeaderAllContent ==
    /\ pc \in {"pages", "crashed"} /\ HeaderPages(fs[frame.path], frame.page) = {}
        => /\ ~frame.is_solution_section
           /\ frame.solutions_content = <<>>
           /\ frame.book_content = JoinPages(fs[frame.path], 1, frame.page)
    /\ PrimaryReturned /\ HeaderPages(fs[Last(trace).file], Len(fs[Last(trace).file])) = {}
        => /\ book_solutions = <<>>
           /\ book_content = JoinPages(fs[Last(trace).file], 1, Len(fs[Last(trace).file]))

C2_Witness ==
    /\ PrimaryReturned
    /\ LET doc == fs[Last(trace).file]
       IN  /\ Len(doc) = 2
           /\ HeaderPages(doc, 2) = {}
           /\ doc[1] # doc[2]
           /\ book_content = doc[1] \o <<NL>> \o doc[2] \o <<NL>>

\* C3: in one run the per-document step runs at most once per base_name: at
\* most one "Processing Book" line, one extraction of a main book, one
\* embedding call and one store call per stream bear the same base_name.
C3_AtMostOncePerBaseName ==
    \A j, k \in DOMAIN trace :
        j # k =>
            /\ ~ /\ trace[j].ev = "print_processing"
                 /\ trace[k].ev = "print_processing"
                 /\ trace[j].file = trace[k].file
            /\ ~ /\ trace[j].ev = "open" /\ IsMainBook(trace[j].file)
                 /\ trace[k].ev = "open" /\ IsMainBook(trace[k].file)
                 /\ BaseName(trace[j].file) = BaseName(trace[k].file)
            /\ ~ /\ trace[j].ev \in {"encode", "add", "print_no_text"}
                 /\ trace[k].ev = trace[j].ev
                 /\ trace[j].file = trace[k].file
                 /\ trace[j].content_type = trace[k].content_type

\* A later entry with the base_name of an entry already processed was passed.
C3_Witness ==
    /\ pc = "done"
    /\ Len(listing) = 2
    /\ listing[1] # listing[2]
    /\ IsMainBook(listing[1]) /\ IsMainBook(listing[2])
    /\ BaseName(listing[1]) = BaseName(listing[2])
    /\ Positions("add") # {}

EndsInCompanionSuffix(filename) ==
    /\ Len(filename) >= 3
    /\ SubSeq(filename, Len(filename) - 1, Len(filename)) = <<"_Solutions", ".pdf">>

\* C4: a file whose name ends in _Solutions.pdf is never processed as a main
\* book: it is opened only as the separate solutions file of the book being
\* processed, no "Processing Book" line and no stored fragment bears its own
\* base_name, and what is read from it is kept apart from the book's content.
C4_CompanionNeverPrimary ==
    /\ \A k \in DOMAIN trace :
          EndsInCompanionSuffix(trace[k].file) =>
              /\ trace[k].ev # "print_processing"
              /\ trace[k].ev = "open" =>
                    /\ k > 1
                    /\ trace[k - 1].ev = "print_found"
                    /\ trace[k - 1].file = trace[k].file
    /\ \A f \in Range(listing) :
          EndsInCompanionSuffix(f) =>
              /\ \A r \in store : r.metadata.source_book # BaseName(f)
              /\ \A k \in DOMAIN trace : trace[k].ev = "print_processing"
                                           => trace[k].file # BaseName(f)
    /\ pc \in {"open", "pages", "crashed"} /\ EndsInCompanionSuffix(frame.path)
          => /\ frame.role = "companion"
             /\ frame.path = base_name \o <<"_Solutions", ".pdf">>

\* The companion came before its book in the listing, and was read and
\* indexed as the book's solutions.
C4_Witness ==
    /\ pc = "done"
    /\ listing = <<A_Solutions_pdf, A_pdf>>
    /\ \E k \in Positions("close") : trace[k].file = A_Solutions_pdf
    /\ \E r \in store : /\ r.metadata.source_book = <<"A">>
                        /\ r.metadata.content_type = "solution"
                        /\ r.document = Strip(JoinPages(fs[A_Solutions_pdf], 1,
                                                        Len(fs[A_Solutions_pdf])))

DigitValue(c) ==
    CHOOSE d \in 0..9 : <<"0", "1", "2", "3", "4", "5", "6", "7", "8", "9">>[d + 1] = c

RECURSIVE DecimalValue(_)
DecimalValue(digits) ==
    IF digits = <<>> THEN 0
    ELSE 10 * DecimalValue(SubSeq(digits, 1, Len(digits) - 1)) + DigitValue(Last(digits))

\* The sequence index an id ends in.
IndexOf(id, base) == DecimalValue(SubSeq(id, Len(base) + 4, Len(id)))

\* id reads <base>_<content_type>_<decimal number>
IsFragmentIdOf(id, base, content_type) ==
    /\ Len(id) > Len(base) + 3
    /\ SubSeq(id, 1, Len(base) + 3) = base \o <<"_", content_type, "_">>
    /\ \A k \in (Len(base) + 4)..Len(id) :
          id[k] \in {"0", "1", "2", "3", "4", "5", "6", "7", "8", "9"}

\* C5: the fragment at position i of a stream gets the id
\* <base_name>_<content_type>_<i> and the metadata {source_book, content_type};
\* the indices of a stream are 0..n-1 without gaps, its ids pairwise distinct;
\* the content stream is tagged book_content, the merged solutions solution.
C5_FragmentIdentity ==
    /\ \A k \in Positions("add") :
          LET e == trace[k]
          IN  /\ Len(e.ids) = e.n
              /\ trace[k - 1].ev = "encode" /\ trace[k - 1].n = e.n
              /\ \A j \in 1..Len(e.ids) :
                    /\ IsFragmentIdOf(e.ids[j], e.file, e.content_type)
                    /\ IndexOf(e.ids[j], e.file) = j - 1
              /\ \A j, l \in 1..Len(e.ids) : j # l => e.ids[j] # e.ids[l]
    /\ \A r \in store :
          /\ r.metadata.content_type \in {"book_content", "solution"}
          /\ IsFragmentIdOf(r.id, r.metadata.source_book, r.metadata.content_type)
          /\ IndexOf(r.id, r.metadata.source_book) > 0
                => \E q \in store :
                      /\ q.metadata = r.metadata
                      /\ IsFragmentIdOf(q.id, q.metadata.source_book, q.metadata.content_type)
                      /\ IndexOf(q.id, q.metadata.source_book)
                            = IndexOf(r.id, r.metadata.source_book) - 1
    /\ pc \in {"index_solution", "mark"} /\ Last(trace).ev = "print_success"
          => LET e == trace[Len(trace) - 1]
             IN  /\ e.ev = "add" /\ e.file = base_name
                 /\ pc = "index_solution"
                       => /\ e.content_type = "book_content"
                          /\ e.documents = split_text(book_content)
                 /\ pc = "mark"
                       => /\ e.content_type = "solution"
                          /\ e.documents = split_text(book_solutions \o <<NL>>
                                                          \o external_solutions)

\* Both streams of one book are stored, one of them in several fragments.
C5_Witness ==
    /\ pc = "mark"
    /\ Last(trace).ev = "print_success"
    /\ \E k \in Positions("add") : trace[k].content_type = "book_content" /\ trace[k].n >= 2
    /\ \E k \in Positions("add") : trace[k].content_type = "solution" /\ trace[k].n >= 1
    /\ Cardinality(store) >= 3

\* This run and the one before it both completed without a failed call.
CleanRerun == pc = "done" /\ prev.ran /\ prev.clean /\ Clean(trace)

IdsAdded(tr) == UNION {Range(tr[k].ids) : k \in {j \in DOMAIN tr : tr[j].ev = "add" /\ tr[j].ok}}

StreamEvents == {"encode", "print_no_text"}

\* C7: a failed embedding call or store write is reported, nothing of that
\* stream is stored or reported as added, the next thing the driver does is
\* the book's other stream or the next entry, and the collection holds what
\* it held at the start plus the fragments of the streams that were added.
C7_FailureIsolatedPerStream ==
    /\ \A k \in DOMAIN trace :
          trace[k].ev \in {"encode", "add"} /\ ~trace[k].ok
              => /\ k < Len(trace)
                 /\ trace[k + 1].ev = "print_error"
                 /\ trace[k + 1].file = trace[k].file
                 /\ \A m \in Positions("print_success") :
                       ~ /\ trace[m].file = trace[k].file
                         /\ trace[m].content_type = trace[k].content_type
    /\ \A k \in Positions("print_error") :
          /\ k = Len(trace)
                => pc \in IF trace[k].content_type = "book_content"
                           THEN {"index_solution"} ELSE {"mark", "loop"}
          /\ k < Len(trace)
                => IF trace[k].content_type = "book_content"
                   THEN /\ trace[k + 1].ev \in StreamEvents
                        /\ trace[k + 1].file = trace[k].file
                        /\ trace[k + 1].content_type = "solution"
                   ELSE trace[k + 1].ev \in {"print_processing", "print_summary"}
    /\ StoreIds(store) = StoreIds(prev.store) \cup IdsAdded(trace)
    /\ pc = "done"
          => /\ Last(trace).ev = "print_summary"
             /\ Last(trace).n = Cardinality(StoreIds(prev.store) \cup IdsAdded(trace))
             /\ \A j \in DOMAIN listing :
                   IsMainBook(listing[j])
                       => \A t \in {"book_content", "solution"} :
                             \E k \in DOMAIN trace :
                                 /\ trace[k].ev \in StreamEvents
                                 /\ trace[k].file = BaseName(listing[j])
                                 /\ trace[k].content_type = t

\* The embedding of a book's solutions failed after its content was added,
\* and the next book was processed and added.
C7_Witness ==
    /\ pc = "done"
    /\ run = 1
    /\ \E k \in Positions("encode") :
          /\ ~trace[k].ok
          /\ trace[k].content_type = "solution"
          /\ \E m \in Positions("print_success") :
                m < k /\ trace[m].file = trace[k].file
          /\ \E m \in Positions("print_success") :
                m > k /\ trace[m].file # trace[k].file
    /\ Last(trace).n >= 2

\* C8: no failure of a capability ends the run early: the driver goes through
\* every entry and reaches the summary.
C8_NeverAborts == pc # "crashed"

\* C9: when page.get_text raises, an error is reported and both buffers of
\* the document come back empty; the pages read before are not returned.
C9_PageFailureSkipsDocument ==
    \A k \in Positions("get_text") :
        ~trace[k].ok
            => /\ pc # "crashed"
               /\ k < Len(trace)
               /\ trace[k + 1].ev = "print_open_error"
               /\ pc = "check_solutions_file" /\ k + 1 = Len(trace)
                     => book_content = <<>> /\ book_solutions = <<>>

\* C10: a document that was opened is closed by the time
\* extract_content_and_solutions ends for it, whatever the outcome; no handle
\* of an earlier document is open while another is processed.
C10_HandlesReleased ==
    /\ pc \notin {"pages"} => handles = {}
    /\ pc = "pages" => handles = {frame.path}

\* What the page loop makes of a whole document, said from its pages: the
\* pages before the first header page, and the pages from it on.
ContentOf(doc) ==
    IF HeaderPages(doc, Len(doc)) = {} THEN JoinPages(doc, 1, Len(doc))
    ELSE JoinPages(doc, 1, FirstHeader(doc, Len(doc)) - 1)

SolutionsOf(doc) ==
    IF HeaderPages(doc, Len(doc)) = {} THEN <<>>
    ELSE JoinPages(doc, FirstHeader(doc, Len(doc)), Len(doc))

\* The loop body is at work on base_name and the main book's extraction is over.
PastPrimary ==
    \/ pc \in {"check_solutions_file", "index_content", "index_solution", "mark"}
    \/ pc \in {"open", "pages"} /\ frame.role = "companion"

\* positions of the main books that fitz.open could not open
FailedPrimaries ==
    {k \in Positions("open") : ~trace[k].ok /\ IsMainBook(trace[k].file)}

\* Every main book of the listing got its "Processing Book" line.
AllBooksBegun ==
    \A j \in DOMAIN listing :
        IsMainBook(listing[j])
            => \E k \in Positions("print_processing") :
                  trace[k].file = BaseName(listing[j])

\* C11: when the main book cannot be opened the error is printed,
\* both buffers are empty, no embedding call and no store write bears its
\* base_name, with or without a separate solutions file, and the loop goes on
\* to the next entry.
C11_FailedPrimaryNothingIndexed ==
    /\ \A k \in FailedPrimaries :
          /\ trace[k + 1].ev = "print_open_error"
          /\ trace[k + 1].file = trace[k].file
          /\ \A m \in DOMAIN trace :
                trace[m].ev \in {"encode", "add"}
                    => trace[m].file # BaseName(trace[k].file)
          /\ PastPrimary /\ base_name = BaseName(trace[k].file)
                => book_content = <<>> /\ book_solutions = <<>>
    /\ pc = "done" => AllBooksBegun

\* The main book of the loop body at work, and its separate solutions file.
Opened(filename) ==
    \E k \in Positions("open") : trace[k].file = filename /\ trace[k].ok

PrimarySolutions ==
    IF Opened(listing[i]) THEN SolutionsOf(fs[listing[i]]) ELSE <<>>

CompanionContent ==
    LET companion == BaseName(listing[i]) \o <<"_Solutions", ".pdf">>
    IN  IF companion \in Range(listing) /\ Opened(companion)
        THEN ContentOf(fs[companion]) ELSE <<>>

\* C12: the text chunked for the solution stream is the main book's solutions,
\* a newline, and the content of the separate solutions file, in this order;
\* without such a file the last part is empty; with no solutions in the main
\* book the text begins with the newline, followed by the file's content.
C12_MergedSolutionsText ==
    pc \in {"index_content", "index_solution", "mark"}
        => LET merged == PrimarySolutions \o <<NL>> \o CompanionContent
           IN  /\ book_solutions = PrimarySolutions
               /\ external_solutions = CompanionContent
               /\ AllSolutionsText(book_solutions, external_solutions) = merged
               /\ SolutionFilename(base_name) \notin Range(listing)
                     => /\ external_solutions = <<>>
                        /\ merged = PrimarySolutions \o <<NL>>
               /\ PrimarySolutions = <<>>
                     => /\ merged[1] = NL
                        /\ SubSeq(merged, 2, Len(merged)) = CompanionContent
               /\ pc = "mark"
                     => LET e == IF Last(trace).ev = "print_no_text"
                                 THEN Last(trace)
                                 ELSE CHOOSE x \in {trace[k] : k \in Positions("encode")} :
                                         /\ x.file = base_name
                                         /\ x.content_type = "solution"
                        IN  /\ e.file = base_name
                            /\ e.content_type = "solution"
                            /\ e.documents = split_text(merged)

\* The main book has solutions of its own and a separate solutions file with
\* other text, and the stream of both was embedded.
C12_Witness ==
    /\ pc = "mark"
    /\ PrimarySolutions # <<>>
    /\ CompanionContent # <<>>
    /\ PrimarySolutions # CompanionContent
    /\ \E k \in Positions("encode") :
          /\ trace[k].content_type = "solution"
          /\ trace[k].documents
                = split_text(PrimarySolutions \o <<NL>> \o CompanionContent)
          /\ trace[k].documents
                # split_text(CompanionContent \o <<NL>> \o PrimarySolutions)

\* C13: a stream whose text is empty or blank gives no fragment: add_to_db
\* then prints "No text found", calls neither encode nor collection.add,
\* prints no error, and the loop goes on; no fragment with empty text is
\* embedded or stored.
C13_EmptyStreamSkipped ==
    /\ \A k \in Positions("print_no_text") :
          /\ \A m \in DOMAIN trace :
                trace[m].ev \in {"encode", "add", "print_success", "print_error"}
                    => ~ /\ trace[m].file = trace[k].file
                         /\ trace[m].content_type = trace[k].content_type
          /\ k < Len(trace)
                => IF trace[k].content_type = "book_content"
                   THEN /\ trace[k + 1].ev \in StreamEvents
                        /\ trace[k + 1].file = trace[k].file
                        /\ trace[k + 1].content_type = "solution"
                   ELSE trace[k + 1].ev \in {"print_processing", "print_summary"}
          /\ k = Len(trace)
                => pc \in IF trace[k].content_type = "book_content"
                           THEN {"index_solution"} ELSE {"mark", "loop"}
    /\ pc = "index_solution"
          => (Last(trace).ev = "print_no_text"
                <=> \A c \in Range(book_content) : c \in {NL, SP})
    /\ pc = "mark"
          => (Last(trace).ev = "print_no_text"
                <=> \A c \in Range(book_solutions \o <<NL>> \o external_solutions) :
                        c \in {NL, SP})
    /\ \A k \in DOMAIN trace :
          trace[k].ev \in {"encode", "add"}
              => /\ trace[k].n >= 1
                 /\ Len(trace[k].documents) = trace[k].n
                 /\ \A j \in 1..trace[k].n :
                       /\ trace[k].documents[j] # <<>>
                       /\ \E c \in Range(trace[k].documents[j]) : c \notin {NL, SP}
    /\ \A r \in store :
          /\ r.document # <<>>
          /\ \E c \in Range(r.document) : c \notin {NL, SP}

\* A book without a solutions header and without a separate solutions file:
\* its content was stored, its solution stream, a lone newline, was passed by.
C13_Witness ==
    /\ pc = "mark"
    /\ SolutionFilename(base_name) \notin Range(listing)
    /\ book_content # <<>>
    /\ book_solutions = <<>>
    /\ Last(trace).ev = "print_no_text"
    /\ Last(trace).content_type = "solution"
    /\ trace[Len(trace) - 1].ev = "print_success"
    /\ store # {}

SameStream(d, e) == d.file = e.file /\ d.content_type = e.content_type

\* C14: for a stream with fragments, encode is called once with the whole
\* batch in order; collection.add follows only an encode that returned, once,
\* with ids, vectors, texts and metadatas of one length and in fragment order,
\* the vectors being those encode returned; a failed call is not repeated.
C14_OneEncodeThenOneAdd ==
    /\ \A k \in Positions("encode") :
          LET e == trace[k]
          IN  /\ e.n >= 1
              /\ Len(e.documents) = e.n
              /\ k < Len(trace)
              /\ IF e.ok
                 THEN /\ Len(e.embeddings) = e.n
                      /\ trace[k + 1].ev = "add"
                      /\ SameStream(trace[k + 1], e)
                      /\ trace[k + 1].documents = e.documents
                      /\ trace[k + 1].embeddings = e.embeddings
                 ELSE /\ trace[k + 1].ev = "print_error"
                      /\ \A m \in Positions("add") : ~SameStream(trace[m], e)
              /\ \A m \in Positions("encode") : m # k => ~SameStream(trace[m], e)
    /\ \A k \in Positions("add") :
          LET e == trace[k]
          IN  /\ k > 1
              /\ trace[k - 1].ev = "encode"
              /\ trace[k - 1].ok
              /\ SameStream(trace[k - 1], e)
              /\ Len(e.ids) = e.n
              /\ Len(e.embeddings) = e.n
              /\ Len(e.documents) = e.n
              /\ Len(e.metadatas) = e.n
              /\ \A j \in 1..e.n :
                    /\ IndexOf(e.ids[j], e.file) = j - 1
                    /\ e.metadatas[j] = [source_book |-> e.file,
                                         content_type |-> e.content_type]
                    /\ e.ok /\ e.ids[j] \notin StoreIds(prev.store)
                          => \E r \in store :
                                /\ r.id = e.ids[j]
                                /\ r.document = e.documents[j]
                                /\ r.embedding = e.embeddings[j]
                                /\ r.metadata = e.metadatas[j]
              /\ \A m \in Positions("add") : m # k => ~SameStream(trace[m], e)
    /\ pc \in {"index_solution", "mark"}
          => \A k \in Positions("encode") :
                trace[k].file = base_name
                    => trace[k].documents
                          = IF trace[k].content_type = "book_content"
                            THEN split_text(book_content)
                            ELSE split_text(book_solutions \o <<NL>>
                                                \o external_solutions)

\* A stream of two different fragments was embedded in one call and stored in
\* one write, and both records are in the collection.
C14_Witness ==
    \E k \in Positions("add") :
        /\ trace[k].ok
        /\ trace[k].n = 2
        /\ trace[k].documents[1] # trace[k].documents[2]
        /\ trace[k].embeddings[1] # trace[k].embeddings[2]
        /\ trace[k - 1].ev = "encode"
        /\ trace[k - 1].documents = trace[k].documents
        /\ \A j \in 1..2 :
              \E r \in store : /\ r.id = trace[k].ids[j]
                               /\ r.document = trace[k].documents[j]
                               /\ r.embedding = trace[k].embeddings[j]

\* The separate solutions file of the book at work was read to its end.
CompanionRead ==
    /\ pc \in {"index_content", "index_solution", "mark"}
    /\ SolutionFilename(base_name) \in Range(listing)
    /\ \E k \in Positions("close") : trace[k].file = SolutionFilename(base_name)

\* C15: when the separate solutions file has a header on its page j, only the
\* pages before j go into the book's solutions text; the pages from j on are
\* dropped and are in no fragment embedded or stored.
C15_CompanionSolutionsDiscarded ==
    CompanionRead
        => LET cdoc == fs[SolutionFilename(base_name)]
               headers == HeaderPages(cdoc, Len(cdoc))
               kept == IF headers = {} THEN JoinPages(cdoc, 1, Len(cdoc))
                       ELSE JoinPages(cdoc, 1, FirstHeader(cdoc, Len(cdoc)) - 1)
           IN  /\ external_solutions = kept
               /\ \A k \in DOMAIN trace :
                     /\ trace[k].ev \in {"encode", "add"}
                     /\ trace[k].file = base_name
                     /\ trace[k].content_type = "solution"
                     => /\ trace[k].documents
                              = split_text(book_solutions \o <<NL>> \o kept)
                        /\ book_solutions = <<>>
                              => \A j \in 1..trace[k].n :
                                    ~HasHeaderLine(trace[k].documents[j])
               /\ headers # {} /\ book_solutions = <<>> /\ prev.store = {}
                     => \A r \in store :
                           r.metadata = [source_book |-> base_name,
                                         content_type |-> "solution"]
                               => ~HasHeaderLine(r.document)

\* The separate solutions file has text on page 1 and a header on page 2: the
\* text of page 1 alone was stored as the book's solutions.
C15_Witness ==
    /\ CompanionRead
    /\ pc = "mark"
    /\ LET cdoc == fs[SolutionFilename(base_name)]
       IN  /\ Len(cdoc) = 2
           /\ HeaderPages(cdoc, 2) = {2}
           /\ book_solutions = <<>>
           /\ \E r \in store :
                 /\ r.metadata = [source_book |-> base_name,
                                  content_type |-> "solution"]
                 /\ r.added_in_run = run
                 /\ r.document = Strip(cdoc[1])

\* C16: is_solution_section belongs to one call of
\* extract_content_and_solutions: every call starts with the flag false and
\* empty buffers, and flag and buffers are at every page what the pages of
\* that document read so far make them, whatever documents came before.
C16_FlagScopedToDocument ==
    /\ pc = "open"
          => /\ frame.page = 0
             /\ ~frame.is_solution_section
             /\ frame.book_content = <<>>
             /\ frame.solutions_content = <<>>
    /\ pc \in {"pages", "crashed"}
          => LET read == SubSeq(fs[frame.path], 1, frame.page)
             IN  /\ frame.is_solution_section <=> HeaderPages(read, Len(read)) # {}
                 /\ frame.book_content = ContentOf(read)
                 /\ frame.solutions_content = SolutionsOf(read)
    /\ PastPrimary /\ Opened(listing[i])
          => /\ book_content = ContentOf(fs[listing[i]])
             /\ book_solutions = SolutionsOf(fs[listing[i]])
    /\ CompanionRead
          => external_solutions = ContentOf(fs[SolutionFilename(base_name)])

\* A book with a header was read to its end; the pages of the next book, which
\* has none, are being read as content.
C16_Witness ==
    /\ pc = "pages"
    /\ frame.role = "primary"
    /\ frame.page >= 1
    /\ ~frame.is_solution_section
    /\ frame.book_content # <<>>
    /\ \E k \in Positions("close") :
          /\ IsMainBook(trace[k].file)
          /\ trace[k].file # frame.path
          /\ HeaderPages(fs[trace[k].file], Len(fs[trace[k].file])) # {}
    /\ book_solutions # <<>>

\* Both streams of the base_name came to add_to_db in this run.
StreamsIndexed(b) ==
    \A t \in {"book_content", "solution"} :
        \E k \in DOMAIN trace : /\ trace[k].ev \in StreamEvents
                                /\ trace[k].file = b
                                /\ trace[k].content_type = t

\* C17 as stated: every listed .pdf file whose name does not end in
\* _Solutions before the extension is a main book: at the end of a run without
\* a failed call its base_name is in processed_books and both its streams came
\* to add_to_db; only names ending in _Solutions.pdf are left out.
C17_AllButSuffixedProcessed ==
    pc = "done" /\ Clean(trace)
        => \A j \in DOMAIN listing :
              LET f == listing[j]
              IN  /\ Last(f) = ".pdf" /\ ~EndsInCompanionSuffix(f)
                        => /\ BaseName(f) \in processed_books
                           /\ StreamsIndexed(BaseName(f))
                  /\ EndsInCompanionSuffix(f)
                        => /\ BaseName(f) \notin processed_books
                           /\ ~StreamsIndexed(BaseName(f))

\* C17, amended: every listed .pdf file whose name has _Solutions nowhere in
\* it is a main book: at the end of a run without a failed call its base_name
\* is in processed_books and both streams of that base_name came to
\* add_to_db; a name with _Solutions anywhere in it is left out, also when it
\* does not end in it.
C17_AllWithoutMarkProcessed ==
    pc = "done" /\ Clean(trace)
        => \A j \in DOMAIN listing :
              LET f == listing[j]
              IN  /\ Last(f) = ".pdf" /\ "_Solutions" \notin Range(f)
                        => /\ BaseName(f) \in processed_books
                           /\ StreamsIndexed(BaseName(f))
                  /\ "_Solutions" \in Range(f) \/ Last(f) # ".pdf"
                        => /\ BaseName(f) \notin processed_books
                           /\ ~StreamsIndexed(BaseName(f))
                           /\ \A k \in Positions("print_processing") :
                                 trace[k].file # BaseName(f)

\* A run without a failed call over a book and a file with _Solutions in the
\* middle of its name: the book was processed and stored, the other passed by.
C17_Witness ==
    /\ pc = "done"
    /\ Clean(trace)
    /\ A_Solutions_v2_pdf \in Range(listing)
    /\ \E j \in DOMAIN listing :
          /\ IsMainBook(listing[j])
          /\ BaseName(listing[j]) \in processed_books
          /\ StreamsIndexed(BaseName(listing[j]))
    /\ BaseName(A_Solutions_v2_pdf) \notin processed_books
    /\ store # {}

\* The step of the loop body an event belongs to: the "Processing Book" line,
\* the main book's extraction, the "Found separate solutions file" line, that
\* file's extraction, add_to_db for the content, add_to_db for the solutions,
\* the summary.
StepOf(e) ==
    IF e.ev = "print_processing" THEN "begin"
    ELSE IF e.ev = "print_found" THEN "found"
    ELSE IF e.ev \in {"open", "get_text", "close", "print_open_error"}
         THEN IF EndsInCompanionSuffix(e.file) THEN "companion" ELSE "primary"
    ELSE IF e.ev = "print_summary" THEN "summary"
    ELSE IF e.content_type = "book_content" THEN "content" ELSE "solution"

\* which step may directly follow which
StepOrder ==
    {<<"begin", "primary">>, <<"primary", "primary">>, <<"primary", "found">>,
     <<"primary", "content">>, <<"found", "companion">>,
     <<"companion", "companion">>, <<"companion", "content">>,
     <<"content", "content">>, <<"content", "solution">>,
     <<"solution", "solution">>, <<"solution", "begin">>,
     <<"solution", "summary">>}

\* the "Processing Book" line an event comes under
BookOf(m) ==
    LET k == CHOOSE j \in Positions("print_processing") :
                /\ j <= m
                /\ \A l \in Positions("print_processing") : l <= m => l <= j
    IN  trace[k].file

\* add_to_db(chunks, content_type) has returned for the book.
StreamReturned(b, t) ==
    \E k \in DOMAIN trace :
        /\ trace[k].ev \in {"print_success", "print_error", "print_no_text"}
        /\ trace[k].file = b
        /\ trace[k].content_type = t

\* C18: the steps of one book come in a fixed order: extraction of the main
\* book, extraction of the separate solutions file if there is one, add_to_db
\* for the content, add_to_db for the solutions, and only then the base_name
\* enters processed_books; nothing of a later book happens before that.
C18_StepsInOrder ==
    /\ trace # <<>> => StepOf(trace[1]) \in {"begin", "summary"}
    /\ \A m \in 1..(Len(trace) - 1) :
          /\ <<StepOf(trace[m]), StepOf(trace[m + 1])>> \in StepOrder
          /\ StepOf(trace[m + 1]) = "found"
                <=> /\ StepOf(trace[m]) = "primary"
                    /\ trace[m].ev \in {"close", "print_open_error"}
                    /\ BookOf(m) \o <<"_Solutions", ".pdf">> \in Range(listing)
          /\ StepOf(trace[m + 1]) = "begin"
                => /\ BookOf(m) \in processed_books
                   /\ BookOf(m) # trace[m + 1].file
    /\ \A m \in DOMAIN trace :
          /\ StepOf(trace[m]) = "primary" => BaseName(trace[m].file) = BookOf(m)
          /\ StepOf(trace[m]) = "companion"
                => trace[m].file = BookOf(m) \o <<"_Solutions", ".pdf">>
          /\ StepOf(trace[m]) \in {"content", "solution"}
                => trace[m].file = BookOf(m)
    /\ \A b \in processed_books :
          /\ StreamReturned(b, "book_content")
          /\ StreamReturned(b, "solution")
          /\ \E k \in Positions("open") : BaseName(trace[k].file) = b
    /\ pc \in {"open", "pages", "check_solutions_file", "index_content",
               "index_solution", "mark", "crashed"}
          => /\ base_name \notin processed_books
             /\ BookOf(Len(trace)) = base_name
    /\ pc = "index_solution" => StreamReturned(base_name, "book_content")
    /\ pc = "mark" => /\ StreamReturned(base_name, "book_content")
                      /\ StreamReturned(base_name, "solution")
    /\ pc \in {"loop", "done"} /\ Positions("print_processing") # {}
          => BookOf(Len(trace)) \in processed_books

\* Two books were processed one after the other, each with text stored.
C18_Witness ==
    /\ pc = "done"
    /\ Cardinality(processed_books) = 2
    /\ \E k \in Positions("print_processing") :
          /\ k > 1
          /\ StepOf(trace[k - 1]) = "solution"
          /\ trace[k - 1].ev = "print_success"
          /\ \E m \in Positions("print_success") :
                m > k /\ trace[m].content_type = "book_content"
=============================================================================
